---- MODULE Spec2Model ----
(***************************************************************************)
(* Model of the logging pipeline of claude-code-router:                    *)
(*   StreamManager      src/utils/logging/streams/index.ts                 *)
(*   LogManager         src/utils/logging/LogManager.ts                    *)
(*   LogConfigManager   src/unnamed/part_005                               *)
(*   ConfigFileIntegration  src/utils/logging/config/ConfigFileIntegration.ts *)
(*   RequestContextTracker, StreamStateTracker                             *)
(*                      src/utils/logging/tracking/StreamStateTracker.ts   *)
(*   ErrorLogger        src/utils/logging/enhanced/ErrorLogger.ts          *)
(*   integration-factory  src/utils/logging/integration/integration-factory.ts *)
(* Asynchronous methods are split at their await points; synchronous       *)
(* stretches between two awaits are one step.                              *)
(***************************************************************************)
EXTENDS Integers, Sequences, FiniteSets, TLC

VARIABLES
  smConfig,       \* StreamManager.config.streams : sequence of StreamEntry
  streams,        \* StreamManager.streams : Map name -> MultiStreamRes, in insertion order
  activeStreams,  \* StreamManager.activeStreams : Set<string>
  nextHandle,     \* next Writable a file stream construction hands out
  ended,          \* Writables on which end() has been called
  smLast,         \* name, arguments and Result of the last StreamManager call that returned
  config,         \* LogConfigManager.config
  initialized,    \* LogManager.initialized
  logger,         \* LogManager.logger : the pino logger and the destinations of its multistream
  requestTracker, \* LogManager.requestTracker (NoObj = null)
  streamTracker,  \* LogManager.streamTracker
  errorLogger,    \* LogManager.errorLogger
  pc,             \* per caller: the await a LogManager call of this caller is suspended at
  loc,            \* per caller: the locals of the suspended call
  res,            \* the caller, the operation and the Result of the last call that returned
  lastLog,        \* where the last log record went
  calls,          \* number of LogManager calls issued so far
  rsSources,      \* ConfigFileIntegration.integrateConfig: the collected ConfigSource[]
  rsOut,          \* the finalConfig, mergedPaths and conflicts of the last mergeConfigs
  rsPhase,        \* "collected" before mergeConfigs has run, "merged" after
  now,            \* Date.now()
  rtContexts,     \* RequestContextTracker.requestContexts
  rtStats,        \* RequestContextTracker.statistics
  rtInterval,     \* whether RequestContextTracker.cleanupInterval is set
  rtLog,          \* the last record RequestContextTracker wrote to its logger
  rtCalls,        \* the trackRequest* calls that found their context: the errors, and the
                  \* sum of the durations of the ends and of the errors
  ssStreams,      \* StreamStateTracker.activeStreams joined with streamProgress
  elCounts,       \* ErrorLogger.errorCounts
  elHistory,      \* ErrorLogger.errorHistory
  elLogged,       \* the logError calls made since ErrorLogger was constructed or cleaned
  probe,          \* the outcome of the last getLogger or healthCheck
  globalIntegration, \* integration-factory: the global ExistingLogIntegration (NoObj = null)
  giInstances,    \* the ExistingLogIntegration objects constructed so far, in order
  giPc,           \* per caller: the await a factory call of this caller is suspended at
  giLoc           \* per caller: the integration the suspended call awaits

smVars == <<smConfig, streams, activeStreams, nextHandle, ended, smLast>>

trackerVars == <<requestTracker, streamTracker, errorLogger>>

plVars == <<config, initialized, logger, requestTracker, streamTracker, errorLogger,
            pc, loc, res, lastLog, calls>>

rsVars == <<rsSources, rsOut, rsPhase>>

\* the variables of the components that run apart from LogManager and StreamManager
rtVars == <<now, rtContexts, rtStats, rtInterval, rtLog, rtCalls>>

ssVars == <<ssStreams>>

elVars == <<elCounts, elHistory, elLogged>>

giVars == <<globalIntegration, giInstances, giPc, giLoc>>

extVars == <<rsVars, rtVars, ssVars, elVars, probe, giVars>>

vars == <<smConfig, streams, activeStreams, nextHandle, ended, smLast,
          config, initialized, logger, requestTracker, streamTracker, errorLogger,
          pc, loc, res, lastLog, calls, rsSources, rsOut, rsPhase,
          now, rtContexts, rtStats, rtInterval, rtLog, rtCalls, ssStreams,
          elCounts, elHistory, elLogged, probe,
          globalIntegration, giInstances, giPc, giLoc>>

(***************************************************************************)
(* Bounds                                                                  *)
(***************************************************************************)
MaxHandles == 2          \* file Writables one run may open
MaxCalls == 3            \* LogManager calls (initialize, updateConfig, cleanup) one run issues

(***************************************************************************)
(* Values                                                                  *)
(***************************************************************************)
None == "none"
Undefined == "undefined"
StdOut == 0              \* process.stdout, shared by every console stream

Names == {"a", "info"}
StreamLevels == {"info", "error"}

\* StreamEntry { name, type, level, path?, autoEnd? }; path: whether a path is given;
\* autoEnd: Undefined, "true" or "false"
Entry(n, t, l, p, ae) == [name |-> n, type |-> t, level |-> l, path |-> p, autoEnd |-> ae]

Entries ==
  { Entry(n, "file", l, TRUE, ae) : n \in Names, l \in StreamLevels, ae \in {Undefined, "false"} }
    \cup { Entry(n, "console", "info", FALSE, "false") : n \in Names }
    \cup { Entry(n, "custom", "info", FALSE, Undefined) : n \in Names }
    \cup { Entry("a", "file", "info", FALSE, Undefined) }

\* configurations a StreamManager is constructed with (LogConfig.streams)
ConfigPool ==
  { <<>>,
    << Entry("a", "file", "info", TRUE, Undefined) >>,
    << Entry("a", "file", "info", TRUE, Undefined), Entry("info", "file", "info", TRUE, Undefined) >>,
    << Entry("a", "custom", "info", FALSE, Undefined), Entry("info", "file", "error", TRUE, "false") >>,
    << Entry("info", "console", "info", FALSE, "false"), Entry("a", "file", "info", FALSE, Undefined) >>,
    << Entry("a", "file", "info", TRUE, Undefined), Entry("a", "file", "error", TRUE, Undefined) >> }

\* Partial<StreamEntry> arguments of updateStream; Undefined = key not present
Partials ==
  { [name |-> Undefined, type |-> Undefined, level |-> Undefined],
    [name |-> Undefined, type |-> Undefined, level |-> "error"],
    [name |-> Undefined, type |-> "custom", level |-> Undefined],
    [name |-> "info", type |-> Undefined, level |-> Undefined] }

(***************************************************************************)
(* Result<T, Error>                                                        *)
(***************************************************************************)
Ok(v) == [ok |-> TRUE, value |-> v, error |-> None]
Err(e) == [ok |-> FALSE, value |-> Undefined, error |-> e]

(***************************************************************************)
(* JavaScript Map, kept as the sequence of its entries in insertion order  *)
(***************************************************************************)
MapKeys(m) == { m[i].name : i \in 1..Len(m) }
MapHas(m, k) == k \in MapKeys(m)
MapIndex(m, k) == CHOOSE i \in 1..Len(m) : m[i].name = k
MapGet(m, k) == m[MapIndex(m, k)]

\* Map.set that never replaces an entry
MapSetAppend(m, e) == Append(m, e)

MapSet(m, e) ==
  IF MapHas(m, e.name)
    THEN [i \in 1..Len(m) |-> IF m[i].name = e.name THEN e ELSE m[i]]
    ELSE Append(m, e)

MapDelete(m, k) == SelectSeq(m, LAMBDA e : e.name # k)

(***************************************************************************)
(* StreamManager.createStream                                              *)
(*   envOk: whether the file system lets the directory / file be created   *)
(***************************************************************************)
AutoEnd(entry) == IF entry.autoEnd = Undefined THEN TRUE ELSE entry.autoEnd = "true"

CreateStream(entry, envOk, nh) ==
  CASE entry.type = "file" ->
         IF entry.path /\ envOk
           THEN Ok([name |-> entry.name, stream |-> nh, level |-> entry.level,
                    autoEnd |-> AutoEnd(entry)])
           ELSE Err("create failed")
    [] entry.type = "console" ->
         Ok([name |-> entry.name, stream |-> StdOut, level |-> entry.level,
             autoEnd |-> AutoEnd(entry)])
    [] OTHER -> Err("Unsupported stream type")

\* a Writable is opened only by a file entry that constructs
Opens(entry, envOk) == entry.type = "file" /\ entry.path /\ envOk

(***************************************************************************)
(* The registry as one value, so that the loops of the code can be folded  *)
(***************************************************************************)
Reg(st, act, nh, en) == [streams |-> st, active |-> act, next |-> nh, ended |-> en]

\* one iteration of the loop of createDefaultStreams / the body of addStream
RegAdd(reg, entry, envOk) ==
  LET r == CreateStream(entry, envOk, reg.next) IN
  IF r.ok
    THEN [reg EXCEPT !.streams = MapSet(@, r.value),
                     !.active = @ \cup {entry.name},
                     !.next = IF Opens(entry, envOk) THEN @ + 1 ELSE @]
    ELSE reg

\* createDefaultStreams that gives up at the first descriptor that fails to construct
RECURSIVE CreateDefaultStreamsAbort(_, _, _, _)
CreateDefaultStreamsAbort(reg, cfg, env, i) ==
  IF i > Len(cfg) \/ ~CreateStream(cfg[i], env[i], reg.next).ok THEN reg
  ELSE CreateDefaultStreamsAbort(RegAdd(reg, cfg[i], env[i]), cfg, env, i + 1)

\* StreamManager.createDefaultStreams over cfg[i..], env[i] the file system's answer for cfg[i]
RECURSIVE CreateDefaultStreams(_, _, _, _)
CreateDefaultStreams(reg, cfg, env, i) ==
  IF i > Len(cfg) THEN reg
  ELSE CreateDefaultStreams(RegAdd(reg, cfg[i], env[i]), cfg, env, i + 1)

\* names of the descriptors of cfg that createStream rejects (console.error only)
FailedNames(cfg, env) ==
  { cfg[i].name : i \in { j \in 1..Len(cfg) : ~CreateStream(cfg[j], env[j], 0).ok } }

\* removeStream without this.streams.delete(name)
RegRemoveNoDelete(reg, name) ==
  LET s == MapGet(reg.streams, name) IN
  [reg EXCEPT !.active = @ \ {name},
              !.ended = IF s.autoEnd THEN @ \cup {s.stream} ELSE @]

\* the body of removeStream for a name that is present
RegRemove(reg, name) ==
  LET s == MapGet(reg.streams, name) IN
  [reg EXCEPT !.streams = MapDelete(@, name),
              !.active = @ \ {name},
              !.ended = IF s.autoEnd THEN @ \cup {s.stream} ELSE @]

\* StreamManager.cleanup
RegCleanup(reg) ==
  [reg EXCEPT !.streams = <<>>,
              !.active = {},
              !.ended = @ \cup { reg.streams[i].stream :
                                   i \in { j \in 1..Len(reg.streams) : reg.streams[j].autoEnd } }]

CurReg == Reg(streams, activeStreams, nextHandle, ended)

SetReg(reg) ==
  /\ streams' = reg.streams
  /\ activeStreams' = reg.active
  /\ nextHandle' = reg.next
  /\ ended' = reg.ended

Last(op, name, result, failed) == [op |-> op, name |-> name, result |-> result, failed |-> failed]

EnvFor(cfg) == [1..Len(cfg) -> BOOLEAN]

(***************************************************************************)
(* StreamManager operations, each call run to completion                   *)
(***************************************************************************)
\* StreamManager.initialize
SMInitialize(env) ==
  LET reg == CreateDefaultStreams(CurReg, smConfig, env, 1) IN
  /\ reg.next <= MaxHandles + 1
  /\ SetReg(reg)
  /\ smLast' = Last("initialize", None, Ok(Undefined), FailedNames(smConfig, env))
  /\ UNCHANGED <<smConfig, plVars>>
  /\ UNCHANGED extVars

\* StreamManager.addStream
AddStream(entry, envOk) ==
  LET reg == RegAdd(CurReg, entry, envOk)
      r == CreateStream(entry, envOk, nextHandle) IN
  /\ reg.next <= MaxHandles + 1
  /\ SetReg(reg)
  /\ smLast' = Last("addStream", entry.name, IF r.ok THEN Ok(Undefined) ELSE Err(r.error), {})
  /\ UNCHANGED <<smConfig, plVars>>
  /\ UNCHANGED extVars

\* StreamManager.removeStream
RemoveStream(name) ==
  /\ IF MapHas(streams, name)
       THEN /\ SetReg(RegRemove(CurReg, name))
            /\ smLast' = Last("removeStream", name, Ok(Undefined), {})
       ELSE /\ smLast' = Last("removeStream", name, Err("Stream not found"), {})
            /\ UNCHANGED <<streams, activeStreams, nextHandle, ended>>
  /\ UNCHANGED <<smConfig, plVars>>
  /\ UNCHANGED extVars

\* const existingConfig = this.config.streams.find(s => s.name === name)
HasConfig(cfg, name) == \E i \in 1..Len(cfg) : cfg[i].name = name
ConfigIndex(cfg, name) ==
  CHOOSE i \in 1..Len(cfg) : cfg[i].name = name /\ \A j \in 1..(i - 1) : cfg[j].name # name

\* { ...existingConfig, ...newConfig }
Spread(e, p) ==
  [e EXCEPT !.name = IF p.name = Undefined THEN @ ELSE p.name,
            !.type = IF p.type = Undefined THEN @ ELSE p.type,
            !.level = IF p.level = Undefined THEN @ ELSE p.level]

\* StreamManager.updateStream
UpdateStream(name, newConfig, envOk) ==
  /\ UNCHANGED plVars
  /\ IF ~MapHas(streams, name)
    THEN /\ smLast' = Last("updateStream", name, Err("Stream not found"), {})
         /\ UNCHANGED <<smConfig, streams, activeStreams, nextHandle, ended>>
    ELSE
      LET removed == RegRemove(CurReg, name) IN
      IF ~HasConfig(smConfig, name)
        THEN /\ SetReg(removed)
             /\ smLast' = Last("updateStream", name, Err("Stream configuration not found"), {})
             /\ UNCHANGED smConfig
        ELSE
          LET i == ConfigIndex(smConfig, name)
              updatedConfig == Spread(smConfig[i], newConfig)
              r == CreateStream(updatedConfig, envOk, removed.next)
              added == RegAdd(removed, updatedConfig, envOk) IN
          /\ added.next <= MaxHandles + 1
          /\ SetReg(added)
          /\ IF r.ok
               THEN /\ smConfig' = [smConfig EXCEPT ![i] = updatedConfig]
                    /\ smLast' = Last("updateStream", name, Ok(Undefined), {})
               ELSE /\ UNCHANGED smConfig
                    /\ smLast' = Last("updateStream", name, Err(r.error), {})
  /\ UNCHANGED extVars

\* StreamManager.cleanup
SMCleanup ==
  /\ SetReg(RegCleanup(CurReg))
  /\ smLast' = Last("cleanup", None, Ok(Undefined), {})
  /\ UNCHANGED <<smConfig, plVars>>
  /\ UNCHANGED extVars


(***************************************************************************)
(* LogConfigManager                                                        *)
(***************************************************************************)
CanonicalLevels == {"trace", "debug", "info", "warn", "error", "fatal"}

\* the values of `level` the model draws: a canonical level and one that is not
ConfigLevels == {"info", "invalid"}

\* LogConfig { level, streams }
Config(l, st) == [level |-> l, streams |-> st]

\* the stream configurations a pipeline is constructed or updated with
PipelineConfigs ==
  { << Entry("a", "file", "info", TRUE, Undefined), Entry("info", "file", "info", TRUE, Undefined) >>,
    << Entry("a", "custom", "info", FALSE, Undefined), Entry("info", "file", "error", TRUE, "false") >> }

\* DeepPartial<LogConfig>: has = the keys the update carries
Updates ==
  { [has |-> {"level"}, level |-> l, streams |-> <<>>] : l \in ConfigLevels }
    \cup { [has |-> {"streams"}, level |-> "info", streams |-> st] : st \in PipelineConfigs }

\* LogConfigManager.deepMerge: a scalar or an array of the source replaces the target's
DeepMerge(target, source) ==
  [level |-> IF "level" \in source.has THEN source.level ELSE target.level,
   streams |-> IF "streams" \in source.has THEN source.streams ELSE target.streams]

\* LogConfigManager.validateConfiguration(config).isValid
IsValid(cfg) == cfg.level \in CanonicalLevels

\* the value this.config holds when updateConfiguration(updates) has returned or thrown
UpdatedConfig(cfg, updates) == DeepMerge(cfg, updates)

(***************************************************************************)
(* ConfigFileIntegration: collecting the configuration sources and merging *)
(* them into the final configuration                                       *)
(***************************************************************************)
ENVIRONMENT == 1
CONFIG_FILE == 2
PRESET == 3
DEFAULT == 4

\* a level no source defines: a falsy `level` of a source's config
NoLevel == ""

RsLevels == {"info", "error"}

Descriptor(n, t) == [name |-> n, type |-> t]

RsStreamLists ==
  { <<>>,
    <<Descriptor("x", "console")>>,
    <<Descriptor("x", "file")>>,
    <<Descriptor("y", "console")>>,
    <<Descriptor("x", "file"), Descriptor("y", "console")>> }

Payload(l, st) == [level |-> l, streams |-> st]

ConfigSource(t, p, c) == [type |-> t, priority |-> p, config |-> c]

\* the payloads each source can carry: the default configuration, the converted preset
\* (a level and at least one stream), the logging section of the configuration file, and
\* the environment (LOG_LEVEL || 'info', LOG_STREAMS or [])
DefaultPayloads == { Payload(l, st) : l \in RsLevels \cup {NoLevel}, st \in RsStreamLists }
PresetPayloads == { Payload(l, st) : l \in RsLevels,
                                     st \in {<<Descriptor("default-console", "console")>>,
                                             <<Descriptor("x", "file")>>} }
FilePayloads == { Payload(l, st) : l \in RsLevels \cup {NoLevel}, st \in RsStreamLists }
EnvPayloads == { Payload(l, st) : l \in RsLevels,
                                  st \in {<<>>, <<Descriptor("x", "console")>>,
                                          <<Descriptor("y", "console")>>} }

\* at most one payload: a source that may be absent
Optional(S) == {<<>>} \cup { <<c>> : c \in S }

\* where Array.prototype.sort puts `src` among the already sorted sources
InsertByPriorityDesc(src, sorted) ==
  LET k == Cardinality({ i \in 1..Len(sorted) : sorted[i].priority >= src.priority })
  IN SubSeq(sorted, 1, k) \o <<src>> \o SubSeq(sorted, k + 1, Len(sorted))

InsertByPriority(src, sorted) ==
  LET k == Cardinality({ i \in 1..Len(sorted) : sorted[i].priority <= src.priority })
  IN SubSeq(sorted, 1, k) \o <<src>> \o SubSeq(sorted, k + 1, Len(sorted))

\* sources.sort((a, b) => a.priority - b.priority)
RECURSIVE SortByPriority(_)
SortByPriority(s) ==
  IF s = <<>> THEN <<>>
  ELSE InsertByPriority(s[Len(s)], SortByPriority(SubSeq(s, 1, Len(s) - 1)))

\* collectConfigSources: default, preset, configuration file and environment are pushed in
\* this order and then sorted by priority
CollectConfigSources(def, preset, file, env) ==
  SortByPriority(
    <<ConfigSource("default", DEFAULT, def)>>
    \o [i \in 1..Len(preset) |-> ConfigSource("preset", PRESET, preset[i])]
    \o [i \in 1..Len(file) |-> ConfigSource("config-file", CONFIG_FILE, file[i])]
    \o <<ConfigSource("environment", ENVIRONMENT, env)>>)

StreamNames(st) == { st[i].name : i \in 1..Len(st) }

Path(what, n, from) == [what |-> what, name |-> n, from |-> from]

Conflict(n, from) == [name |-> n, from |-> from]

\* mergeConfigs' accumulator: mergedConfig, mergedPaths, conflicts, and `alias`, the index
\* of the source whose streams array mergedConfig.streams is (0: the array literal)
Merged(l, st, a, mp, cf) ==
  [level |-> l, streams |-> st, alias |-> a, mergedPaths |-> mp, conflicts |-> cf]

\* the inner loop over a later source's streams; `existing` is computed before the loop
RECURSIVE PushStreams(_, _, _, _, _)
PushStreams(m, st, from, existing, k) ==
  IF k > Len(st) THEN m
  ELSE IF st[k].name \in existing
       THEN PushStreams([m EXCEPT !.conflicts = Append(@, Conflict(st[k].name, from))],
                        st, from, existing, k + 1)
       ELSE PushStreams([m EXCEPT !.streams = Append(@, st[k]),
                                  !.mergedPaths = Append(@, Path("stream", st[k].name, from))],
                        st, from, existing, k + 1)

\* one iteration of mergeConfigs' loop over the sources
MergeSource(m, src, idx) ==
  LET c == src.config
      m1 == IF c.level # NoLevel /\ c.level # m.level
            THEN [m EXCEPT !.level = c.level,
                           !.mergedPaths = Append(@, Path("level", None, src.type))]
            ELSE m
  IN IF Len(c.streams) > 0
     THEN IF Len(m1.streams) = 0
          THEN [m1 EXCEPT !.streams = c.streams, !.alias = idx,
                          !.mergedPaths = Append(@, Path("streams", None, src.type))]
          ELSE PushStreams(m1, c.streams, src.type, StreamNames(m1.streams), 1)
     ELSE m1

RECURSIVE MergeFrom(_, _, _)
MergeFrom(m, sources, i) ==
  IF i > Len(sources) THEN m
  ELSE MergeFrom(MergeSource(m, sources[i], i), sources, i + 1)

MergeResult(sources) == MergeFrom(Merged("info", <<>>, 0, <<>>, <<>>), sources, 1)

ConfigIntegrationResult(l, st, mp, cf) ==
  [finalConfig |-> Payload(l, st), mergedPaths |-> mp, conflicts |-> cf]

NoResult == ConfigIntegrationResult(NoLevel, <<>>, <<>>, <<>>)

\* mergeConfigs(sources): the sources are left as the merge leaves them, the one whose
\* streams array became mergedConfig.streams holding what was pushed onto it
MergeConfigs ==
  LET m == MergeResult(rsSources) IN
  /\ rsPhase = "collected"
  /\ rsOut' = ConfigIntegrationResult(m.level, m.streams, m.mergedPaths, m.conflicts)
  /\ rsSources' = IF m.alias = 0 THEN rsSources
                  ELSE [rsSources EXCEPT ![m.alias].config.streams = m.streams]
  /\ rsPhase' = "merged"
  /\ UNCHANGED <<giVars, smVars, plVars, rtVars, ssVars, elVars, probe>>

IdleResolve ==
  /\ rsSources = <<>>
  /\ rsOut = NoResult
  /\ rsPhase = "idle"

(***************************************************************************)
(* Numbers that JavaScript holds as doubles, kept as exact fractions       *)
(***************************************************************************)
RECURSIVE Gcd(_, _)
Gcd(a, b) == IF b = 0 THEN a ELSE Gcd(b, a % b)

\* the fraction n / d in lowest terms, for d > 0
Rat(n, d) ==
  LET g == Gcd(IF n < 0 THEN 0 - n ELSE n, d) IN [num |-> n \div g, den |-> d \div g]

RatLeq(x, y) == x.num * y.den <= y.num * x.den

(***************************************************************************)
(* RequestContextTracker                                                   *)
(***************************************************************************)
MaxTicks == 2
MaxStarts == 2
MaxEnds == 3
MaxErrors == 1

\* the clock advances in steps of half an hour
TickMs == 30 * 60 * 1000

maxAge == 30 * 60 * 1000

CREATED == "created"
ACTIVE == "active"
COMPLETED == "completed"
FAILED == "failed"

RequestIds == {"r1", "r2"}
Methods == {"GET"}
Urls == {"/a"}
StatusCodes == {200, 400, 500}
Durations == {100, 200, 300}

\* a statusCode that is undefined
NoNumber == 0 - 1

RequestContext(st, t, m, u, code) ==
  [status |-> st, startTime |-> t, method |-> m, url |-> u, statusCode |-> code]

RequestStatistics(total, active, completed, failed, avg) ==
  [totalRequests |-> total, activeRequests |-> active, completedRequests |-> completed,
   failedRequests |-> failed, averageResponseTime |-> avg]

\* a record given to the logger: its message, requestId and cleanedCount
LogRecord(msg, id, n) == [msg |-> msg, requestId |-> id, cleanedCount |-> n]

Counts(er, sum) == [errors |-> er, sum |-> sum]

\* the trackRequestEnd calls that found their context
Ends == rtStats.completedRequests + rtStats.failedRequests - rtCalls.errors

\* updateAverageResponseTime, on the statistics whose counters are already incremented
UpdateAverageResponseTimeHalf(stats, newDuration) ==
  LET totalCompleted == stats.completedRequests + stats.failedRequests
      avg == stats.averageResponseTime
  IN [stats EXCEPT !.averageResponseTime =
        IF totalCompleted = 0 THEN Rat(newDuration, 1)
        ELSE Rat(avg.num + newDuration * avg.den, avg.den * 2)]

UpdateAverageResponseTime(stats, newDuration) ==
  LET totalCompleted == stats.completedRequests + stats.failedRequests
      avg == stats.averageResponseTime
  IN [stats EXCEPT !.averageResponseTime =
        IF totalCompleted = 0 THEN Rat(newDuration, 1)
        ELSE Rat(avg.num * (totalCompleted - 1) + newDuration * avg.den,
                 avg.den * totalCompleted)]

\* statusCode >= 400 ? RequestStatus.FAILED : RequestStatus.COMPLETED
EndStatusAbove(statusCode) == IF statusCode > 400 THEN FAILED ELSE COMPLETED

EndStatus(statusCode) == IF statusCode >= 400 THEN FAILED ELSE COMPLETED

\* RequestContextTracker.initialize
RTInitialize ==
  /\ rtInterval' = TRUE
  /\ rtLog' = LogRecord("RequestContextTracker initialized", None, 0)
  /\ UNCHANGED <<now, rtContexts, rtStats, rtCalls>>
  /\ UNCHANGED <<giVars, smVars, plVars, rsVars, ssVars, elVars, probe>>

\* trackRequestStart: createContext for an unknown id, updateContext otherwise
TrackRequestStart(requestId, method, url) ==
  /\ IF requestId \notin DOMAIN rtContexts
     THEN /\ rtStats.totalRequests < MaxStarts
          /\ rtContexts' = [id \in DOMAIN rtContexts \cup {requestId} |->
                              IF id = requestId
                              THEN RequestContext(CREATED, now, method, url, NoNumber)
                              ELSE rtContexts[id]]
          /\ rtStats' = [rtStats EXCEPT !.totalRequests = @ + 1, !.activeRequests = @ + 1]
     ELSE /\ rtContexts' = [rtContexts EXCEPT ![requestId].status = ACTIVE,
                                             ![requestId].method = method,
                                             ![requestId].url = url]
          /\ UNCHANGED rtStats
  /\ rtLog' = LogRecord("Request started", requestId, 0)
  /\ UNCHANGED <<now, rtInterval, rtCalls>>
  /\ UNCHANGED <<giVars, smVars, plVars, rsVars, ssVars, elVars, probe>>

\* trackRequestEnd
TrackRequestEnd(requestId, statusCode, duration) ==
  /\ IF requestId \in DOMAIN rtContexts
     THEN /\ Ends < MaxEnds
          /\ rtContexts' = [rtContexts EXCEPT ![requestId].status = EndStatus(statusCode),
                                             ![requestId].statusCode = statusCode]
          /\ rtStats' = UpdateAverageResponseTime(
                          IF statusCode >= 400
                          THEN [rtStats EXCEPT !.activeRequests = @ - 1,
                                               !.failedRequests = @ + 1]
                          ELSE [rtStats EXCEPT !.activeRequests = @ - 1,
                                               !.completedRequests = @ + 1],
                          duration)
          /\ rtLog' = LogRecord("Request completed", requestId, 0)
          /\ rtCalls' = [rtCalls EXCEPT !.sum = @ + duration]
     ELSE UNCHANGED <<rtContexts, rtStats, rtLog, rtCalls>>
  /\ UNCHANGED <<now, rtInterval>>
  /\ UNCHANGED <<giVars, smVars, plVars, rsVars, ssVars, elVars, probe>>

\* trackRequestError
TrackRequestError(requestId, statusCode) ==
  /\ IF requestId \in DOMAIN rtContexts
     THEN /\ rtCalls.errors < MaxErrors
          /\ rtCalls' = [rtCalls EXCEPT !.errors = @ + 1,
                                        !.sum = @ + (now - rtContexts[requestId].startTime)]
          /\ rtContexts' = [rtContexts EXCEPT ![requestId].status = FAILED,
                                             ![requestId].statusCode = statusCode]
          /\ rtStats' = [rtStats EXCEPT !.activeRequests = @ - 1, !.failedRequests = @ + 1]
          /\ rtLog' = LogRecord("Request failed", requestId, 0)
     ELSE UNCHANGED <<rtContexts, rtStats, rtLog, rtCalls>>
  /\ UNCHANGED <<now, rtInterval>>
  /\ UNCHANGED <<giVars, smVars, plVars, rsVars, ssVars, elVars, probe>>

\* the contexts cleanupOldContexts deletes
OldContextsFinished ==
  { id \in DOMAIN rtContexts :
      /\ rtContexts[id].startTime # 0 /\ rtContexts[id].startTime < now - maxAge
      /\ rtContexts[id].status \in {COMPLETED, FAILED} }

OldContexts ==
  { id \in DOMAIN rtContexts :
      rtContexts[id].startTime # 0 /\ rtContexts[id].startTime < now - maxAge }

\* cleanupOldContexts, run by the interval that initialize sets
CleanupOldContexts ==
  /\ rtInterval
  /\ rtContexts' = [id \in DOMAIN rtContexts \ OldContexts |-> rtContexts[id]]
  /\ rtLog' = IF OldContexts # {}
              THEN LogRecord("Cleaned up old request contexts", None, Cardinality(OldContexts))
              ELSE rtLog
  /\ UNCHANGED <<now, rtStats, rtInterval, rtCalls>>
  /\ UNCHANGED <<giVars, smVars, plVars, rsVars, ssVars, elVars, probe>>

\* RequestContextTracker.cleanup
RTCleanup ==
  /\ rtInterval' = FALSE
  /\ rtContexts' = <<>>
  /\ rtLog' = LogRecord("RequestContextTracker cleaned up", None, 0)
  /\ UNCHANGED <<now, rtStats, rtCalls>>
  /\ UNCHANGED <<giVars, smVars, plVars, rsVars, ssVars, elVars, probe>>

\* time passes
Tick ==
  /\ now < (1 + MaxTicks) * TickMs
  /\ now' = now + TickMs
  /\ UNCHANGED <<rtContexts, rtStats, rtInterval, rtLog, rtCalls>>
  /\ UNCHANGED <<giVars, smVars, plVars, rsVars, ssVars, elVars, probe>>

NewRequestTracker ==
  /\ now = TickMs
  /\ rtContexts = <<>>
  /\ rtStats = RequestStatistics(0, 0, 0, 0, Rat(0, 1))
  /\ rtInterval = FALSE
  /\ rtLog = LogRecord(None, None, 0)
  /\ rtCalls = Counts(0, 0)

(***************************************************************************)
(* StreamStateTracker                                                      *)
(***************************************************************************)
StreamIds == {"s1", "s2"}
Sizes == {50, 100, 150}
ChunkCounts == {1, 2}

\* the streams followed while time passes
TransferIds == {"s1"}

\* an expectedSize or finalSize that is not given
NoSize == 0

\* a pauseTime or an endTime that is not set
NoTime == 0

\* an estimatedTimeRemaining: undefined, or a number of seconds
Estimate(defined, seconds) == [defined |-> defined, seconds |-> seconds]

NoEstimate == Estimate(FALSE, Rat(0, 1))

\* one stream's StreamState and StreamProgress
StreamState(st, expected, bytes, chunks, end, xfer, pct, start, last, rate, eta, pause, paused) ==
  [status |-> st, expectedSize |-> expected, bytesReceived |-> bytes,
   chunksReceived |-> chunks, endTime |-> end, bytesTransferred |-> xfer,
   percentage |-> pct, startTime |-> start, lastUpdateTime |-> last, transferRate |-> rate,
   estimatedTimeRemaining |-> eta, pauseTime |-> pause, totalPauseDuration |-> paused]

\* state.expectedSize ? (bytesReceived / state.expectedSize) * 100 : 0
PercentageRemaining(bytesReceived, expectedSize) ==
  IF expectedSize # NoSize /\ expectedSize >= bytesReceived
  THEN Rat((expectedSize - bytesReceived) * 100, expectedSize)
  ELSE Rat(0, 1)

Percentage(bytesReceived, expectedSize) ==
  IF expectedSize # NoSize THEN Rat(bytesReceived * 100, expectedSize) ELSE Rat(0, 1)

\* calculateEstimatedTime; the mutant lacks the `remainingBytes <= 0` return
CalculateEstimatedTimeNoFloor(bytesTransferred, totalBytes, startTime) ==
  IF totalBytes = NoSize \/ totalBytes <= 0 \/ bytesTransferred <= 0 THEN NoEstimate
  ELSE LET elapsed == now - startTime
           remainingBytes == totalBytes - bytesTransferred
       IN IF elapsed <= 0 THEN Estimate(TRUE, Rat(0, 1))
          ELSE Estimate(TRUE, Rat(remainingBytes * elapsed, 1000 * bytesTransferred))

CalculateEstimatedTime(bytesTransferred, totalBytes, startTime) ==
  IF totalBytes = NoSize \/ totalBytes <= 0 \/ bytesTransferred <= 0 THEN NoEstimate
  ELSE LET elapsed == now - startTime
           remainingBytes == totalBytes - bytesTransferred
       IN IF elapsed <= 0 \/ remainingBytes <= 0 THEN Estimate(TRUE, Rat(0, 1))
          ELSE Estimate(TRUE, Rat(remainingBytes * elapsed, 1000 * bytesTransferred))

\* timeElapsed > 0 ? (bytesDelta / (timeElapsed / 1000)) : 0
TransferRate(bytesDelta, timeElapsed) ==
  IF timeElapsed > 0 THEN Rat(bytesDelta * 1000, timeElapsed) ELSE Rat(0, 1)

\* startStream
StartStream(streamId, expectedSize) ==
  /\ ssStreams' = [id \in DOMAIN ssStreams \cup {streamId} |->
                     IF id = streamId
                     THEN StreamState("started", expectedSize, 0, 0, NoTime, 0, Rat(0, 1),
                                      now, now, Rat(0, 1),
                                      IF expectedSize # NoSize
                                      THEN CalculateEstimatedTime(0, expectedSize, now)
                                      ELSE NoEstimate,
                                      NoTime, 0)
                     ELSE ssStreams[id]]
  /\ UNCHANGED <<giVars, smVars, plVars, rsVars, rtVars, elVars, probe>>

\* updateStreamProgress
UpdateStreamProgress(streamId, bytesReceived, chunksReceived) ==
  /\ IF streamId \in DOMAIN ssStreams
     THEN LET state == ssStreams[streamId] IN
          ssStreams' =
            [ssStreams EXCEPT
               ![streamId].bytesReceived = bytesReceived,
               ![streamId].chunksReceived = chunksReceived,
               ![streamId].status = "progress",
               ![streamId].bytesTransferred = bytesReceived,
               ![streamId].lastUpdateTime = now,
               ![streamId].transferRate =
                  TransferRate(bytesReceived - state.bytesTransferred, now - state.startTime),
               ![streamId].percentage = Percentage(bytesReceived, state.expectedSize),
               ![streamId].estimatedTimeRemaining =
                  CalculateEstimatedTime(bytesReceived, state.expectedSize, state.startTime)]
     ELSE UNCHANGED ssStreams
  /\ UNCHANGED <<giVars, smVars, plVars, rsVars, rtVars, elVars, probe>>

\* completeStream
CompleteStream(streamId, finalSize) ==
  /\ IF streamId \in DOMAIN ssStreams
     THEN LET bytes == IF finalSize # NoSize THEN finalSize
                       ELSE ssStreams[streamId].bytesReceived
          IN ssStreams' =
               [ssStreams EXCEPT
                  ![streamId].status = "completed",
                  ![streamId].endTime = now,
                  ![streamId].bytesReceived = bytes,
                  ![streamId].expectedSize = IF finalSize # NoSize THEN finalSize ELSE @,
                  ![streamId].lastUpdateTime = now,
                  ![streamId].bytesTransferred = bytes,
                  ![streamId].percentage = Rat(100, 1),
                  ![streamId].estimatedTimeRemaining = Estimate(TRUE, Rat(0, 1))]
     ELSE UNCHANGED ssStreams
  /\ UNCHANGED <<giVars, smVars, plVars, rsVars, rtVars, elVars, probe>>

\* handleStreamError
HandleStreamError(streamId) ==
  /\ IF streamId \in DOMAIN ssStreams
     THEN ssStreams' = [ssStreams EXCEPT ![streamId].status = "error",
                                         ![streamId].endTime = now]
     ELSE UNCHANGED ssStreams
  /\ UNCHANGED <<giVars, smVars, plVars, rsVars, rtVars, elVars, probe>>

\* pauseStream; the mutant lacks the `state.status === 'progress'` test
PauseStreamAlways(streamId) ==
  /\ IF streamId \in DOMAIN ssStreams
     THEN ssStreams' = [ssStreams EXCEPT ![streamId].status = "paused",
                                         ![streamId].pauseTime = now]
     ELSE UNCHANGED ssStreams
  /\ UNCHANGED <<giVars, smVars, plVars, rsVars, rtVars, elVars, probe>>

PauseStream(streamId) ==
  /\ IF streamId \in DOMAIN ssStreams /\ ssStreams[streamId].status = "progress"
     THEN ssStreams' = [ssStreams EXCEPT ![streamId].status = "paused",
                                         ![streamId].pauseTime = now]
     ELSE UNCHANGED ssStreams
  /\ UNCHANGED <<giVars, smVars, plVars, rsVars, rtVars, elVars, probe>>

\* resumeStream
ResumeStream(streamId) ==
  /\ IF /\ streamId \in DOMAIN ssStreams
        /\ ssStreams[streamId].status = "paused"
        /\ ssStreams[streamId].pauseTime # NoTime
     THEN ssStreams' = [ssStreams EXCEPT
                          ![streamId].status = "progress",
                          ![streamId].pauseTime = NoTime,
                          ![streamId].totalPauseDuration =
                             @ + (now - ssStreams[streamId].pauseTime)]
     ELSE UNCHANGED ssStreams
  /\ UNCHANGED <<giVars, smVars, plVars, rsVars, rtVars, elVars, probe>>

NewStreamTracker ==
  /\ ssStreams = <<>>

(***************************************************************************)
(* ErrorLogger  src/utils/logging/enhanced/ErrorLogger.ts                  *)
(***************************************************************************)
MaxLogged == 1002        \* logError calls one run makes
MaxVaried == 3           \* the first logError calls of a run, whose error name varies

maxHistorySize == 1000

ErrorNames == {"Error", "TypeError"}

\* an element of errorHistory; the message of an error is the number it carries
ErrorRecord(timestamp, errorName, errorMessage) ==
  [timestamp |-> timestamp, errorName |-> errorName, errorMessage |-> errorMessage]

\* errorCounts.get(errorName) || 0
CurrentCount(counts, errorName) ==
  IF errorName \in DOMAIN counts THEN counts[errorName] ELSE 0

UpdateErrorCount(counts, errorName) ==
  [n \in DOMAIN counts \cup {errorName} |->
     IF n = errorName THEN CurrentCount(counts, errorName) + 1 ELSE counts[n]]

\* history.slice(-n) for 0 < n
SliceLast(history, n) ==
  IF Len(history) <= n THEN history ELSE SubSeq(history, Len(history) - n + 1, Len(history))

AddToErrorHistoryOldest(history, error) ==
  LET pushed == Append(history, error)
  IN IF Len(pushed) > maxHistorySize THEN SubSeq(pushed, 1, maxHistorySize) ELSE pushed

AddToErrorHistory(history, error) ==
  LET pushed == Append(history, error)
  IN IF Len(pushed) > maxHistorySize THEN SliceLast(pushed, maxHistorySize) ELSE pushed

\* getErrorStatistics().totalErrors
TotalErrors(history) == Len(history)

LogError(errorName, errorMessage) ==
  /\ elLogged < MaxLogged
  /\ elCounts' = UpdateErrorCount(elCounts, errorName)
  /\ elHistory' = AddToErrorHistory(elHistory, ErrorRecord(now, errorName, errorMessage))
  /\ elLogged' = elLogged + 1
  /\ UNCHANGED <<giVars, smVars, plVars, rsVars, rtVars, ssVars, probe>>

ELCleanup ==
  /\ elCounts' = <<>>
  /\ elHistory' = <<>>
  /\ elLogged' = 0
  /\ UNCHANGED <<giVars, smVars, plVars, rsVars, rtVars, ssVars, probe>>

NewErrorLogger ==
  /\ elCounts = <<>>
  /\ elHistory = <<>>
  /\ elLogged = 0

(***************************************************************************)
(* LogManager                                                              *)
(***************************************************************************)
Callers == {1, 2}
NoObj == 0                                \* null
NullLogger == [owner |-> NoObj, dests |-> {}]
NoStream == [name |-> None, stream |-> -1, level |-> None, autoEnd |-> FALSE]
NoLoc == [op |-> None, cfg |-> <<>>, i |-> 0, ok |-> TRUE, ms |-> NoStream]

\* StreamManager.getMultiStreams
GetMultiStreams(st, act) ==
  { st[i].stream : i \in { j \in 1..Len(st) : st[j].level \in act } }

\* pino(options, multistream) throws for a level that is not one of its levels
PinoThrows(cfg) == cfg.level \notin CanonicalLevels \cup {"silent"}

Returned(p, op, result) == [caller |-> p, op |-> op, ok |-> result.ok]

Return(p, result) ==
  /\ pc' = [pc EXCEPT ![p] = "idle"]
  /\ loc' = [loc EXCEPT ![p] = NoLoc]
  /\ res' = Returned(p, loc[p].op, result)

\* the caller runs createStream(cfg[i]) up to its await; the outcome waits in loc
StartCreate(p, op, cfg, i, envOk) ==
  LET r == CreateStream(cfg[i], envOk, nextHandle) IN
  /\ nextHandle' = IF Opens(cfg[i], envOk) THEN nextHandle + 1 ELSE nextHandle
  /\ nextHandle' <= MaxHandles + 1
  /\ loc' = [loc EXCEPT ![p] = [op |-> op, cfg |-> cfg, i |-> i, ok |-> r.ok,
                                ms |-> IF r.ok THEN r.value ELSE NoStream]]
  /\ pc' = [pc EXCEPT ![p] = "streams"]

\* StreamManager.initialize is entered: createDefaultStreams reads this.config.streams
EnterStreams(p, op, envOk) ==
  IF smConfig' = <<>>
    THEN /\ pc' = [pc EXCEPT ![p] = "streamsDone"]
         /\ loc' = [loc EXCEPT ![p] = [NoLoc EXCEPT !.op = op]]
         /\ UNCHANGED nextHandle
    ELSE StartCreate(p, op, smConfig', 1, envOk)

\* InitCall without the `if (this.initialized)` early return
InitCallNoGuard(p) ==
  /\ pc[p] = "idle"
  /\ pc' = [pc EXCEPT ![p] = "config"]
  /\ loc' = [loc EXCEPT ![p] = [NoLoc EXCEPT !.op = "initialize"]]
  /\ calls < MaxCalls
  /\ calls' = calls + 1
  /\ UNCHANGED <<smVars, config, initialized, logger, trackerVars, lastLog, res>>
  /\ UNCHANGED extVars

\* LogManager.initialize, up to the first await
InitCall(p) ==
  /\ pc[p] = "idle"
  /\ IF initialized
       THEN /\ res' = Returned(p, "initialize", Ok(Undefined))
            /\ UNCHANGED <<pc, loc>>
       ELSE /\ pc' = [pc EXCEPT ![p] = "config"]
            /\ loc' = [loc EXCEPT ![p] = [NoLoc EXCEPT !.op = "initialize"]]
            /\ UNCHANGED res
  /\ calls < MaxCalls
  /\ calls' = calls + 1
  /\ UNCHANGED <<smVars, config, initialized, logger, trackerVars, lastLog>>
  /\ UNCHANGED extVars

\* await this.configManager.initialize() has settled with configOk
InitConfigDone(p, configOk, envOk) ==
  /\ pc[p] = "config"
  /\ UNCHANGED <<smConfig, streams, activeStreams, ended, smLast>>
  /\ IF configOk
       THEN /\ EnterStreams(p, "initialize", envOk)
            /\ UNCHANGED res
       ELSE /\ Return(p, Err("config"))
            /\ UNCHANGED nextHandle
  /\ UNCHANGED <<config, initialized, logger, trackerVars, lastLog, calls>>
  /\ UNCHANGED extVars

\* one resumption inside the loop of createDefaultStreams: the stream created before
\* the await is registered, then the next createStream runs up to its await
StreamsStep(p, envOk) ==
  /\ pc[p] = "streams"
  /\ LET l == loc[p] IN
     /\ IF l.ok
          THEN /\ streams' = MapSet(streams, l.ms)
               /\ activeStreams' = activeStreams \cup {l.cfg[l.i].name}
          ELSE UNCHANGED <<streams, activeStreams>>
     /\ IF l.i < Len(l.cfg)
          THEN StartCreate(p, l.op, l.cfg, l.i + 1, envOk)
          ELSE /\ pc' = [pc EXCEPT ![p] = "streamsDone"]
               /\ loc' = [loc EXCEPT ![p] = [NoLoc EXCEPT !.op = l.op]]
               /\ UNCHANGED nextHandle
  /\ UNCHANGED <<smConfig, ended, smLast, res>>
  /\ UNCHANGED <<config, initialized, logger, trackerVars, lastLog, calls>>
  /\ UNCHANGED extVars

\* new RequestContextTracker(logger), and its initialize() up to the await: the interval
\* is set before the log call that may throw
ConstructRequestTracker(trackerOk) ==
  /\ rtContexts' = <<>>
  /\ rtStats' = RequestStatistics(0, 0, 0, 0, Rat(0, 1))
  /\ rtInterval' = TRUE
  /\ rtLog' = IF trackerOk THEN LogRecord("RequestContextTracker initialized", None, 0)
              ELSE LogRecord(None, None, 0)
  /\ rtCalls' = Counts(0, 0)

\* the fields of a tracker LogManager holds no more are those of the constructor
DropRequestTracker ==
  /\ rtContexts' = <<>>
  /\ rtStats' = RequestStatistics(0, 0, 0, 0, Rat(0, 1))
  /\ rtInterval' = FALSE
  /\ rtLog' = LogRecord(None, None, 0)
  /\ rtCalls' = Counts(0, 0)

\* after await this.streamManager.initialize(): the logger and the request tracker
InitStreamsDone(p, trackerOk) ==
  /\ pc[p] = "streamsDone"
  /\ loc[p].op = "initialize"
  /\ IF PinoThrows(config)
       THEN /\ Return(p, Err("pino"))
            /\ UNCHANGED <<logger, requestTracker>>
            /\ UNCHANGED <<rtContexts, rtStats, rtInterval, rtLog, rtCalls>>
       ELSE /\ logger' = [owner |-> p, dests |-> GetMultiStreams(streams, activeStreams)]
            /\ requestTracker' = p
            /\ ConstructRequestTracker(trackerOk)
            /\ pc' = [pc EXCEPT ![p] = "req"]
            /\ loc' = [loc EXCEPT ![p] = [NoLoc EXCEPT !.op = "initialize", !.ok = trackerOk]]
            /\ UNCHANGED res
  /\ UNCHANGED <<smVars, config, initialized, streamTracker, errorLogger, lastLog, calls>>
  /\ UNCHANGED <<giVars, rsVars, now, ssVars, elVars, probe>>

\* after await this.requestTracker.initialize(): the stream tracker
InitReqDone(p, trackerOk) ==
  /\ pc[p] = "req"
  /\ IF loc[p].ok
       THEN /\ streamTracker' = p
            /\ ssStreams' = <<>>
            /\ pc' = [pc EXCEPT ![p] = "st"]
            /\ loc' = [loc EXCEPT ![p] = [NoLoc EXCEPT !.op = "initialize", !.ok = trackerOk]]
            /\ UNCHANGED res
       ELSE /\ Return(p, Err("requestTracker"))
            /\ UNCHANGED <<streamTracker, ssStreams>>
  /\ UNCHANGED <<smVars, config, initialized, logger, requestTracker, errorLogger, lastLog, calls>>
  /\ UNCHANGED <<giVars, rsVars, rtVars, elVars, probe>>

\* after await this.streamTracker.initialize(): the error logger, whose initialize
\* swallows a failing log call and always returns Ok
InitStDone(p) ==
  /\ pc[p] = "st"
  /\ IF loc[p].ok
       THEN /\ errorLogger' = p
            /\ elCounts' = <<>>
            /\ elHistory' = <<>>
            /\ elLogged' = 0
            /\ pc' = [pc EXCEPT ![p] = "err"]
            /\ loc' = [loc EXCEPT ![p] = [NoLoc EXCEPT !.op = "initialize"]]
            /\ UNCHANGED res
       ELSE /\ Return(p, Err("streamTracker"))
            /\ UNCHANGED <<errorLogger, elVars>>
  /\ UNCHANGED <<smVars, config, initialized, logger, requestTracker, streamTracker, lastLog, calls>>
  /\ UNCHANGED <<giVars, rsVars, rtVars, ssVars, probe>>

\* after await this.errorLogger.initialize()
InitErrDone(p) ==
  /\ pc[p] = "err"
  /\ initialized' = TRUE
  /\ Return(p, Ok(Undefined))
  /\ UNCHANGED <<smVars, config, logger, trackerVars, lastLog, calls>>
  /\ UNCHANGED extVars

\* LogConfigManager.updateConfiguration called on its own
UpdateConfiguration(updates) ==
  /\ config' = UpdatedConfig(config, updates)
  /\ UNCHANGED <<smVars, initialized, logger, trackerVars, pc, loc, res, lastLog, calls>>
  /\ UNCHANGED extVars

\* LogManager.updateConfig, up to the await of streamManager.cleanup()
UpdateCall(p, updates) ==
  /\ pc[p] = "idle"
  /\ config' = UpdatedConfig(config, updates)
  /\ IF IsValid(config')
       THEN /\ smConfig' = config'.streams
            /\ streams' = RegCleanup(CurReg).streams
            /\ activeStreams' = RegCleanup(CurReg).active
            /\ ended' = RegCleanup(CurReg).ended
            /\ pc' = [pc EXCEPT ![p] = "cleaned"]
            /\ loc' = [loc EXCEPT ![p] = [NoLoc EXCEPT !.op = "updateConfig"]]
            /\ UNCHANGED res
       ELSE /\ res' = Returned(p, "updateConfig", Err("Configuration update failed"))
            /\ UNCHANGED <<smConfig, streams, activeStreams, ended, pc, loc>>
  /\ calls < MaxCalls
  /\ calls' = calls + 1
  /\ UNCHANGED <<nextHandle, smLast, initialized, logger, trackerVars, lastLog>>
  /\ UNCHANGED extVars

\* after await this.streamManager.cleanup(): streamManager.initialize() is entered
UpdateCleaned(p, envOk) ==
  /\ pc[p] = "cleaned"
  /\ UNCHANGED <<smConfig, streams, activeStreams, ended, smLast>>
  /\ EnterStreams(p, "updateConfig", envOk)
  /\ UNCHANGED <<res, config, initialized, logger, trackerVars, lastLog, calls>>
  /\ UNCHANGED extVars

\* UpdateStreamsDone that builds a new request tracker along with the logger
UpdateStreamsDoneNewTracker(p) ==
  /\ pc[p] = "streamsDone"
  /\ loc[p].op = "updateConfig"
  /\ IF PinoThrows(config)
       THEN /\ Return(p, Err("pino"))
            /\ UNCHANGED logger
            /\ UNCHANGED <<rtContexts, rtStats, rtInterval, rtLog, rtCalls>>
       ELSE /\ logger' = [owner |-> p, dests |-> GetMultiStreams(streams, activeStreams)]
            /\ Return(p, Ok(Undefined))
            /\ ConstructRequestTracker(TRUE)
  /\ UNCHANGED <<smVars, config, initialized, trackerVars, lastLog, calls>>
  /\ UNCHANGED <<giVars, rsVars, now, ssVars, elVars, probe>>

\* after await this.streamManager.initialize(): the logger is rebuilt
UpdateStreamsDone(p) ==
  /\ pc[p] = "streamsDone"
  /\ loc[p].op = "updateConfig"
  /\ IF PinoThrows(config)
       THEN /\ Return(p, Err("pino"))
            /\ UNCHANGED logger
       ELSE /\ logger' = [owner |-> p, dests |-> GetMultiStreams(streams, activeStreams)]
            /\ Return(p, Ok(Undefined))
  /\ UNCHANGED <<smVars, config, initialized, trackerVars, lastLog, calls>>
  /\ UNCHANGED extVars

\* a caller is suspended between the teardown of the streams and the new logger
InUpdateWindow == \E p \in Callers : loc[p].op = "updateConfig"

NoLog == [window |-> FALSE, dispatched |-> FALSE, written |-> FALSE]

\* a log call (logMetric, logError): pino writes the record to each destination
Log ==
  /\ logger # NullLogger
  /\ lastLog' = [window |-> InUpdateWindow, dispatched |-> logger.dests # {},
                 written |-> logger.dests \ ended # {}]
  /\ UNCHANGED <<smVars, config, initialized, logger, trackerVars, pc, loc, res, calls>>
  /\ UNCHANGED extVars

\* LogManager.cleanup, up to the await of streamManager.cleanup()
CleanupCall(p) ==
  /\ pc[p] = "idle"
  /\ SetReg(RegCleanup(CurReg))
  /\ pc' = [pc EXCEPT ![p] = "cleanup"]
  /\ loc' = [loc EXCEPT ![p] = [NoLoc EXCEPT !.op = "cleanup"]]
  /\ calls < MaxCalls
  /\ calls' = calls + 1
  /\ UNCHANGED <<smConfig, smLast, config, initialized, logger, trackerVars, res, lastLog>>
  /\ UNCHANGED extVars

\* CleanupDone that fails on a pipeline that is not initialized
CleanupDoneOnce(p) ==
  /\ pc[p] = "cleanup"
  /\ IF requestTracker # NoObj
       THEN DropRequestTracker
       ELSE UNCHANGED <<rtContexts, rtStats, rtInterval, rtLog, rtCalls>>
  /\ IF streamTracker # NoObj THEN ssStreams' = <<>> ELSE UNCHANGED ssStreams
  /\ IF errorLogger # NoObj
       THEN /\ elCounts' = <<>>
            /\ elHistory' = <<>>
            /\ elLogged' = 0
       ELSE UNCHANGED elVars
  /\ logger' = NullLogger
  /\ requestTracker' = NoObj
  /\ streamTracker' = NoObj
  /\ errorLogger' = NoObj
  /\ initialized' = FALSE
  /\ Return(p, IF initialized THEN Ok(Undefined) ELSE Err("not initialized"))
  /\ UNCHANGED <<smVars, config, lastLog, calls>>
  /\ UNCHANGED <<giVars, rsVars, now, probe>>

\* the rest of LogManager.cleanup: the trackers are cleaned up and the fields reset
\* (the awaits between the tracker cleanups are taken in one step)
CleanupDone(p) ==
  /\ pc[p] = "cleanup"
  /\ IF requestTracker # NoObj
       THEN DropRequestTracker
       ELSE UNCHANGED <<rtContexts, rtStats, rtInterval, rtLog, rtCalls>>
  /\ IF streamTracker # NoObj THEN ssStreams' = <<>> ELSE UNCHANGED ssStreams
  /\ IF errorLogger # NoObj
       THEN /\ elCounts' = <<>>
            /\ elHistory' = <<>>
            /\ elLogged' = 0
       ELSE UNCHANGED elVars
  /\ logger' = NullLogger
  /\ requestTracker' = NoObj
  /\ streamTracker' = NoObj
  /\ errorLogger' = NoObj
  /\ initialized' = FALSE
  /\ Return(p, Ok(Undefined))
  /\ UNCHANGED <<smVars, config, lastLog, calls>>
  /\ UNCHANGED <<giVars, rsVars, now, probe>>

\* the outcome of getLogger or healthCheck: whether it returned, and the status reported
Probe(op, ok, status) == [op |-> op, ok |-> ok, status |-> status]

NoProbe == Probe(None, TRUE, None)

\* LogManager.getLogger: throws when this.logger is null
GetLogger ==
  /\ probe' = Probe("getLogger", logger # NullLogger, None)
  /\ UNCHANGED <<giVars, smVars, plVars, rsVars, rtVars, ssVars, elVars>>

\* configManager.healthCheck() returns its snapshot
ConfigHealthCheckThrows == FALSE

\* healthCheck that takes the status from the logger
HealthCheckByLogger ==
  /\ probe' = IF ConfigHealthCheckThrows
              THEN Probe("healthCheck", FALSE, None)
              ELSE Probe("healthCheck", TRUE,
                         IF logger # NullLogger THEN "healthy" ELSE "unhealthy")
  /\ UNCHANGED <<giVars, smVars, plVars, rsVars, rtVars, ssVars, elVars>>

\* LogManager.healthCheck
HealthCheck ==
  /\ probe' = IF ConfigHealthCheckThrows
              THEN Probe("healthCheck", FALSE, None)
              ELSE Probe("healthCheck", TRUE, IF initialized THEN "healthy" ELSE "unhealthy")
  /\ UNCHANGED <<giVars, smVars, plVars, rsVars, rtVars, ssVars, elVars>>

\* LogManager.logRequestStart: returns at once without a request tracker
LogRequestStart(requestId, method, url) ==
  /\ requestTracker # NoObj
  /\ TrackRequestStart(requestId, method, url)

\* LogManager.startStream: returns at once without a stream tracker
LMStartStream(streamId, expectedSize) ==
  /\ streamTracker # NoObj
  /\ StartStream(streamId, expectedSize)

\* LogManager.logError: returns at once without a logger; the record goes to the logger
\* and then to the error logger
LMLogError(errorName, errorMessage) ==
  /\ logger # NullLogger
  /\ lastLog' = [window |-> InUpdateWindow, dispatched |-> logger.dests # {},
                 written |-> logger.dests \ ended # {}]
  /\ IF errorLogger # NoObj
       THEN /\ elLogged < MaxLogged
            /\ elCounts' = UpdateErrorCount(elCounts, errorName)
            /\ elHistory' = AddToErrorHistory(elHistory, ErrorRecord(now, errorName, errorMessage))
            /\ elLogged' = elLogged + 1
       ELSE UNCHANGED elVars
  /\ UNCHANGED <<smVars, config, initialized, logger, trackerVars, pc, loc, res, calls>>
  /\ UNCHANGED <<giVars, rsVars, rtVars, ssVars, probe>>

(***************************************************************************)
(* integration-factory: the global ExistingLogIntegration                  *)
(*   ok: whether ExistingLogIntegration.initialize returns Ok              *)
(***************************************************************************)
MaxInstances == 3

\* an ExistingLogIntegration: its `initialized` field, whether its initialize() has
\* returned Ok, and whether cleanup() has been called on it
Integration(init, completed, cleanupCalled) ==
  [initialized |-> init, completed |-> completed, cleanupCalled |-> cleanupCalled]

\* new ExistingLogIntegration(config)
Constructed(instances) == Append(instances, Integration(FALSE, FALSE, FALSE))

\* ExistingLogIntegration.initialize has returned
Initialize(instances, i, ok) ==
  [instances EXCEPT ![i].initialized = ok, ![i].completed = ok]

\* ExistingLogIntegration.cleanup: the call, and its return after the await
CleanupCalled(instances, i) == [instances EXCEPT ![i].cleanupCalled = TRUE]
CleanupReturned(instances, i) == [instances EXCEPT ![i].initialized = FALSE]

FactoryFrame == UNCHANGED <<smVars, plVars, rsVars, rtVars, ssVars, elVars, probe>>

\* getGlobalLogIntegration up to `await createLogIntegration()`
GetGlobalLogIntegration(p) ==
  /\ giPc[p] = "idle"
  /\ IF globalIntegration # NoObj
       THEN UNCHANGED giVars
       ELSE /\ Len(giInstances) < MaxInstances
            /\ giInstances' = Constructed(giInstances)
            /\ giPc' = [giPc EXCEPT ![p] = "getCreate"]
            /\ giLoc' = [giLoc EXCEPT ![p] = Len(giInstances) + 1]
            /\ UNCHANGED globalIntegration
  /\ FactoryFrame

\* getGlobalLogIntegration from the return of createLogIntegration
GetGlobalCreated(p, ok) ==
  /\ giPc[p] = "getCreate"
  /\ giInstances' = Initialize(giInstances, giLoc[p], ok)
  /\ globalIntegration' = IF ok THEN giLoc[p] ELSE globalIntegration
  /\ giPc' = [giPc EXCEPT ![p] = "idle"]
  /\ giLoc' = [giLoc EXCEPT ![p] = NoObj]
  /\ FactoryFrame

\* initializeGlobalLogIntegration up to its first await: `await globalIntegration.cleanup()`
\* or `await createLogIntegration(config)`
InitializeGlobalLogIntegration(p) ==
  /\ giPc[p] = "idle"
  /\ IF globalIntegration # NoObj
       THEN /\ giInstances' = CleanupCalled(giInstances, globalIntegration)
            /\ giPc' = [giPc EXCEPT ![p] = "initCleanup"]
            /\ giLoc' = [giLoc EXCEPT ![p] = globalIntegration]
       ELSE /\ Len(giInstances) < MaxInstances
            /\ giInstances' = Constructed(giInstances)
            /\ giPc' = [giPc EXCEPT ![p] = "initCreate"]
            /\ giLoc' = [giLoc EXCEPT ![p] = Len(giInstances) + 1]
  /\ UNCHANGED globalIntegration
  /\ FactoryFrame

\* initializeGlobalLogIntegration from the return of cleanup to `await createLogIntegration`
InitializeGlobalCleaned(p) ==
  /\ giPc[p] = "initCleanup"
  /\ Len(giInstances) < MaxInstances
  /\ giInstances' = Constructed(CleanupReturned(giInstances, giLoc[p]))
  /\ globalIntegration' = NoObj
  /\ giPc' = [giPc EXCEPT ![p] = "initCreate"]
  /\ giLoc' = [giLoc EXCEPT ![p] = Len(giInstances) + 1]
  /\ FactoryFrame

\* initializeGlobalLogIntegration from the return of createLogIntegration
InitializeGlobalCreated(p, ok) ==
  /\ giPc[p] = "initCreate"
  /\ giInstances' = Initialize(giInstances, giLoc[p], ok)
  /\ globalIntegration' = IF ok THEN giLoc[p] ELSE globalIntegration
  /\ giPc' = [giPc EXCEPT ![p] = "idle"]
  /\ giLoc' = [giLoc EXCEPT ![p] = NoObj]
  /\ FactoryFrame

\* destroyGlobalLogIntegration up to `await globalIntegration.cleanup()`
DestroyGlobalLogIntegration(p) ==
  /\ giPc[p] = "idle"
  /\ IF globalIntegration # NoObj
       THEN /\ giInstances' = CleanupCalled(giInstances, globalIntegration)
            /\ giPc' = [giPc EXCEPT ![p] = "destroyCleanup"]
            /\ giLoc' = [giLoc EXCEPT ![p] = globalIntegration]
            /\ UNCHANGED globalIntegration
       ELSE UNCHANGED giVars
  /\ FactoryFrame

\* destroyGlobalLogIntegration from the return of cleanup
DestroyGlobalCleaned(p) ==
  /\ giPc[p] = "destroyCleanup"
  /\ giInstances' = CleanupReturned(giInstances, giLoc[p])
  /\ globalIntegration' = NoObj
  /\ giPc' = [giPc EXCEPT ![p] = "idle"]
  /\ giLoc' = [giLoc EXCEPT ![p] = NoObj]
  /\ FactoryFrame

NewFactory ==
  /\ globalIntegration = NoObj
  /\ giInstances = <<>>
  /\ giPc = [p \in Callers |-> "idle"]
  /\ giLoc = [p \in Callers |-> NoObj]

InitExt ==
  /\ IdleResolve
  /\ NewFactory
  /\ NewRequestTracker
  /\ NewStreamTracker
  /\ NewErrorLogger

InitPipeline ==
  /\ config \in { Config("info", st) : st \in PipelineConfigs }
  /\ initialized = FALSE
  /\ logger = NullLogger
  /\ requestTracker = NoObj
  /\ streamTracker = NoObj
  /\ errorLogger = NoObj
  /\ pc = [p \in Callers |-> "idle"]
  /\ loc = [p \in Callers |-> NoLoc]
  /\ res = Returned(NoObj, None, Ok(Undefined))
  /\ lastLog = NoLog
  /\ calls = 0
  /\ probe = NoProbe

InitComponents ==
  /\ InitPipeline
  /\ InitExt
  /\ smConfig \in ConfigPool
  /\ streams = <<>>
  /\ activeStreams = {}
  /\ nextHandle = 1
  /\ ended = {}
  /\ smLast = Last(None, None, Ok(Undefined), {})

NextComponents ==
  \/ \E env \in EnvFor(smConfig) : SMInitialize(env)
  \/ \E e \in Entries, envOk \in BOOLEAN : AddStream(e, envOk)
  \/ \E n \in Names : RemoveStream(n)
  \/ \E n \in Names, p \in Partials, envOk \in BOOLEAN : UpdateStream(n, p, envOk)
  \/ SMCleanup
  \/ \E u \in Updates : UpdateConfiguration(u)

SpecComponents == InitComponents /\ [][NextComponents]_vars

\* LogManager and its StreamManager as constructed
InitLogging ==
  /\ InitPipeline
  /\ smConfig = config.streams
  /\ streams = <<>>
  /\ activeStreams = {}
  /\ nextHandle = 1
  /\ ended = {}
  /\ smLast = Last(None, None, Ok(Undefined), {})

Init ==
  /\ InitLogging
  /\ InitExt

Next ==
  \/ \E p \in Callers : InitCall(p)
  \/ \E p \in Callers, configOk \in BOOLEAN, envOk \in BOOLEAN : InitConfigDone(p, configOk, envOk)
  \/ \E p \in Callers, envOk \in BOOLEAN : StreamsStep(p, envOk)
  \/ \E p \in Callers, trackerOk \in BOOLEAN : InitStreamsDone(p, trackerOk)
  \/ \E p \in Callers, trackerOk \in BOOLEAN : InitReqDone(p, trackerOk)
  \/ \E p \in Callers : InitStDone(p)
  \/ \E p \in Callers : InitErrDone(p)
  \/ \E p \in Callers, u \in Updates : UpdateCall(p, u)
  \/ \E p \in Callers, envOk \in BOOLEAN : UpdateCleaned(p, envOk)
  \/ \E p \in Callers : UpdateStreamsDone(p)
  \/ Log
  \/ \E p \in Callers : CleanupCall(p)
  \/ \E p \in Callers : CleanupDone(p)

Spec == Init /\ [][Next]_vars

\* integrateConfig: the sources are collected, then merged
InitResolve ==
  /\ InitLogging
  /\ NewFactory
  /\ NewRequestTracker
  /\ NewStreamTracker
  /\ NewErrorLogger
  /\ \E def \in DefaultPayloads, preset \in Optional(PresetPayloads),
        file \in Optional(FilePayloads), env \in EnvPayloads :
       rsSources = CollectConfigSources(def, preset, file, env)
  /\ rsOut = NoResult
  /\ rsPhase = "collected"

NextResolve ==
  \/ MergeConfigs

SpecResolve == InitResolve /\ [][NextResolve]_vars

\* a pipeline whose streams all open, as constructed
InitTrackers ==
  /\ Init
  /\ \A i \in 1..Len(smConfig) : smConfig[i].type = "file"

\* the request tracker of a pipeline: the calls that follow requests, in any order
NextRequests ==
  \/ \E id \in RequestIds, m \in Methods, u \in Urls : TrackRequestStart(id, m, u)
  \/ \E id \in RequestIds, code \in StatusCodes, d \in Durations : TrackRequestEnd(id, code, d)
  \/ \E id \in RequestIds, code \in {NoNumber, 500} : TrackRequestError(id, code)
  \/ RTCleanup

SpecRequests == InitTrackers /\ [][NextRequests]_vars

\* the request tracker of a pipeline as time passes and the interval fires
NextSweep ==
  \/ RTInitialize
  \/ \E id \in RequestIds, m \in Methods, u \in Urls : TrackRequestStart(id, m, u)
  \/ \E id \in RequestIds, code \in {200, 500} : TrackRequestEnd(id, code, 100)
  \/ \E id \in RequestIds : TrackRequestError(id, NoNumber)
  \/ CleanupOldContexts
  \/ RTCleanup
  \/ Tick

SpecSweep == InitTrackers /\ [][NextSweep]_vars

\* the stream tracker of a pipeline, its calls in any order
NextProgress ==
  \/ \E id \in StreamIds, size \in {NoSize, 100} : StartStream(id, size)
  \/ \E id \in StreamIds, b \in Sizes, c \in ChunkCounts : UpdateStreamProgress(id, b, c)
  \/ \E id \in StreamIds, size \in {NoSize, 100} : CompleteStream(id, size)
  \/ \E id \in StreamIds : HandleStreamError(id)
  \/ \E id \in StreamIds : PauseStream(id)
  \/ \E id \in StreamIds : ResumeStream(id)

SpecProgress == InitTrackers /\ [][NextProgress]_vars

\* the stream tracker of a pipeline as time passes
NextTransfer ==
  \/ \E id \in TransferIds, size \in {NoSize, 100} : StartStream(id, size)
  \/ \E id \in TransferIds, b \in Sizes : UpdateStreamProgress(id, b, 1)
  \/ \E id \in TransferIds : CompleteStream(id, NoSize)
  \/ \E id \in TransferIds : HandleStreamError(id)
  \/ \E id \in TransferIds : PauseStream(id)
  \/ \E id \in TransferIds : ResumeStream(id)
  \/ Tick

SpecTransfer == InitTrackers /\ [][NextTransfer]_vars

\* the error logger of a pipeline: the errors of a run carry the numbers 1, 2, ...
NextErrors ==
  \/ \E name \in (IF elLogged < MaxVaried THEN ErrorNames ELSE {"Error"}) :
       LogError(name, elLogged + 1)
  \/ ELCleanup

SpecErrors == InitTrackers /\ [][NextErrors]_vars

\* the caller of a pipeline that awaits each call before the next
Owner == 1

\* the lifecycle of a pipeline with one caller: initialize, updateConfig and cleanup in any
\* order, the getters at any moment, and requests, streams and errors followed in between
NextLifecycle ==
  \/ InitCall(Owner)
  \/ \E configOk \in BOOLEAN, envOk \in BOOLEAN : InitConfigDone(Owner, configOk, envOk)
  \/ \E envOk \in BOOLEAN : StreamsStep(Owner, envOk)
  \/ \E trackerOk \in BOOLEAN : InitStreamsDone(Owner, trackerOk)
  \/ \E trackerOk \in BOOLEAN : InitReqDone(Owner, trackerOk)
  \/ InitStDone(Owner)
  \/ InitErrDone(Owner)
  \/ \E u \in Updates : UpdateCall(Owner, u)
  \/ \E envOk \in BOOLEAN : UpdateCleaned(Owner, envOk)
  \/ UpdateStreamsDone(Owner)
  \/ CleanupCall(Owner)
  \/ CleanupDone(Owner)
  \/ GetLogger
  \/ HealthCheck
  \/ LogRequestStart("r1", "GET", "/a")
  \/ LMStartStream("s1", 100)
  \/ elLogged < MaxErrors /\ LMLogError("Error", elLogged + 1)

SpecLifecycle == InitTrackers /\ [][NextLifecycle]_vars

\* the global integration, its three functions called by two callers in any interleaving
NextFactory ==
  \/ \E p \in Callers : GetGlobalLogIntegration(p)
  \/ \E p \in Callers, ok \in BOOLEAN : GetGlobalCreated(p, ok)
  \/ \E p \in Callers : InitializeGlobalLogIntegration(p)
  \/ \E p \in Callers : InitializeGlobalCleaned(p)
  \/ \E p \in Callers, ok \in BOOLEAN : InitializeGlobalCreated(p, ok)
  \/ \E p \in Callers : DestroyGlobalLogIntegration(p)
  \/ \E p \in Callers : DestroyGlobalCleaned(p)

SpecFactory == InitTrackers /\ [][NextFactory]_vars

SourceOf(t) == CHOOSE i \in 1..Len(rsSources) : rsSources[i].type = t

HasSource(t) == \E i \in 1..Len(rsSources) : rsSources[i].type = t

(***************************************************************************)
(* Properties                                                              *)
(***************************************************************************)
InInitialize(p) == loc[p].op = "initialize"

\* C1: at most one initialize() call is in flight between the `initialized` check and
\* its return; a later caller never starts a second construction.
C1_SingleInFlightInitialize ==
  Cardinality({ p \in Callers : InInitialize(p) }) <= 1

C3_FailedInitializeLeavesUninitialized ==
  (res.op = "initialize" /\ ~res.ok) => ~initialized

\* C4: an updateConfig whose merged configuration fails validation leaves the active
\* configuration as it was before the call.
C4_InvalidUpdateKeepsConfig ==
  [][\A p \in Callers, u \in Updates :
       (UpdateCall(p, u) /\ ~IsValid(UpdatedConfig(config, u))) =>
         (~res'.ok /\ config' = config)]_vars

\* C5: a log record issued while an updateConfig() is suspended between the teardown of
\* the old streams and the installation of the rebuilt logger, and dispatched to some
\* destination, reaches a destination that has not been ended.
C5_NoLossDuringSwap ==
  (lastLog.window /\ lastLog.dispatched) => lastLog.written

\* C6: addStream of a name that is already in the registry returns a failure and leaves
\* the registry as it was.
C6_AddExistingNameFails ==
  [][\A e \in Entries, envOk \in BOOLEAN :
       (MapHas(streams, e.name) /\ AddStream(e, envOk)) =>
         (~smLast'.result.ok /\ streams' = streams)]_vars

\* C7: no two streams of the registry share a name, and the active names are the
\* registered ones.
C7_UniqueStreamNames ==
  /\ \A i, j \in 1..Len(streams) : i # j => streams[i].name # streams[j].name
  /\ activeStreams = MapKeys(streams)

\* a second stream was registered under a name by updateStream
C7_Witness ==
  /\ smLast.op = "updateStream"
  /\ smLast.result.ok
  /\ Len(streams) = 2

\* the errors createStream returns: the add step of updateStream failed
AddErrors == {"create failed", "Unsupported stream type"}

\* C8: when the last call is an updateStream whose remove step succeeded and whose add
\* step failed, it returned a failure and the name is absent from the registry.
C8_FailedUpdateRemovesStream ==
  (smLast.op = "updateStream" /\ smLast.result.error \in AddErrors) =>
    /\ ~smLast.result.ok
    /\ ~MapHas(streams, smLast.name)
    /\ smLast.name \notin activeStreams

\* an updateStream has failed in its add step while another stream stays registered
C8_Witness ==
  /\ smLast.op = "updateStream"
  /\ smLast.result.error \in AddErrors
  /\ Len(streams) = 1

\* C9: StreamManager.initialize returns Ok whatever descriptors fail to construct, and
\* the name of every descriptor that constructs is registered and active afterwards.
C9_FailedStreamSkipped ==
  [][\A env \in EnvFor(smConfig) :
       SMInitialize(env) =>
         /\ smLast'.result.ok
         /\ \A i \in 1..Len(smConfig) :
              CreateStream(smConfig[i], env[i], 0).ok =>
                /\ MapHas(streams', smConfig[i].name)
                /\ smConfig[i].name \in activeStreams']_vars

\* an initialize has skipped a failing descriptor and registered another one
C9_Witness ==
  /\ smLast.op = "initialize"
  /\ smLast.failed # {}
  /\ \E n \in activeStreams : n \notin smLast.failed

\* C10: when descriptors failed to construct during StreamManager.initialize, the Result
\* it returns carries the failures (as its value or as an error).
C10_FailuresReturned ==
  (smLast.op = "initialize" /\ smLast.failed # {}) =>
    (smLast.result.value # Undefined \/ ~smLast.result.ok)

\* C11: after the merge, when both the environment and the default source define the
\* level, the final configuration carries the environment's level.
C11_EnvironmentLevelWins ==
  (/\ rsPhase = "merged"
   /\ rsSources[SourceOf("environment")].config.level # NoLevel
   /\ rsSources[SourceOf("default")].config.level # NoLevel)
  => rsOut.finalConfig.level = rsSources[SourceOf("environment")].config.level

\* the indices of the collected sources that define a stream named n
Defining(n) == { i \in 1..Len(rsSources) : n \in StreamNames(rsSources[i].config.streams) }

DefinitionIn(st, n) == st[CHOOSE k \in 1..Len(st) : st[k].name = n]

\* the one of the sources in D with the highest priority (the smallest ConfigPriority)
Highest(D) == CHOOSE i \in D : \A j \in D : rsSources[i].priority <= rsSources[j].priority

ConflictsFor(cf, n) == Cardinality({ k \in 1..Len(cf) : cf[k].name = n })

\* C12: when exactly two sources define a stream of one name with differing parameters,
\* the merge keeps the definition of the source with the higher priority and reports
\* exactly one conflict for that name.
C12_HigherPriorityStreamKept ==
  [][MergeConfigs =>
       \A n \in {"x", "y", "default-console"} :
         (/\ Cardinality(Defining(n)) = 2
          /\ \E i, j \in Defining(n) :
               DefinitionIn(rsSources[i].config.streams, n)
                 # DefinitionIn(rsSources[j].config.streams, n))
         => /\ DefinitionIn(rsOut'.finalConfig.streams, n)
                 = DefinitionIn(rsSources[Highest(Defining(n))].config.streams, n)
            /\ ConflictsFor(rsOut'.conflicts, n) = 1]_vars

\* the merge has run on two sources that define "x" differently, and one conflict is reported
C12_Witness ==
  /\ rsPhase = "merged"
  /\ HasSource("config-file") /\ HasSource("preset")
  /\ Len(rsOut.conflicts) = 1
  /\ rsOut.conflicts[1] = Conflict("x", "preset")
  /\ DefinitionIn(rsOut.finalConfig.streams, "x") = Descriptor("x", "console")

\* C13: after the merge the final configuration has at least one stream descriptor.
C13_AtLeastOneStream ==
  rsPhase = "merged" => Len(rsOut.finalConfig.streams) >= 1

\* C14: the merge leaves every collected source as it was.
C14_SourcesUnchanged ==
  [][MergeConfigs => rsSources' = rsSources]_vars

\* C15: a context whose status is Completed or Failed keeps its status as long as it exists.
C15_TerminalStatus ==
  [][\A id \in DOMAIN rtContexts \cap DOMAIN rtContexts' :
       rtContexts[id].status \in {COMPLETED, FAILED}
         => rtContexts'[id].status = rtContexts[id].status]_vars

\* C16: trackRequestEnd on a tracked request sets the status to Failed for a statusCode of
\* 400 or more and to Completed otherwise, records the statusCode, and adds exactly 1 to
\* failedRequests, respectively completedRequests, and nothing to the other counter.
C16_EndSetsStatusAndCounters ==
  [][\A id \in DOMAIN rtContexts, code \in StatusCodes, d \in Durations :
       TrackRequestEnd(id, code, d) =>
         /\ rtContexts'[id].status = (IF code >= 400 THEN FAILED ELSE COMPLETED)
         /\ rtContexts'[id].statusCode = code
         /\ rtStats'.failedRequests
              = rtStats.failedRequests + (IF code >= 400 THEN 1 ELSE 0)
         /\ rtStats'.completedRequests
              = rtStats.completedRequests + (IF code >= 400 THEN 0 ELSE 1)]_vars

\* start("r1") then end("r1", 500, d): r1 is Failed with statusCode 500, one failed request
C16_Witness ==
  /\ rtLog = LogRecord("Request completed", "r1", 0)
  /\ "r1" \in DOMAIN rtContexts
  /\ rtContexts["r1"].status = FAILED
  /\ rtContexts["r1"].statusCode = 500
  /\ rtStats.failedRequests = 1
  /\ rtStats.completedRequests = 0

\* C17: trackRequestStart for a request id without a context creates a context whose
\* status is Active.
C17_StartCreatesActive ==
  [][\A id \in RequestIds \ DOMAIN rtContexts, m \in Methods, u \in Urls :
       TrackRequestStart(id, m, u) =>
         /\ id \in DOMAIN rtContexts'
         /\ rtContexts'[id].status = ACTIVE]_vars

\* C18: when every counted request was ended through trackRequestEnd, averageResponseTime
\* is the sum of the durations divided by their number.
C18_AverageOfDurations ==
  (Ends >= 1 /\ rtCalls.errors = 0)
    => rtStats.averageResponseTime = Rat(rtCalls.sum, Ends)

\* three trackRequestEnd calls with durations that add up to 600: the average is 200
C18_Witness ==
  /\ Ends = 3
  /\ rtCalls.errors = 0
  /\ rtCalls.sum = 600
  /\ rtStats.completedRequests = 3
  /\ rtStats.averageResponseTime = Rat(200, 1)

\* C19: a sweep removes every context whose startTime is more than maxAge before now,
\* whatever its status, and no other context.
C19_SweepRemovesOld ==
  [][CleanupOldContexts =>
       \A id \in DOMAIN rtContexts :
         id \in DOMAIN rtContexts' <=> ~(rtContexts[id].startTime < now - maxAge)]_vars

\* a sweep has removed one context, a request that was never ended, and kept a younger one
C19_Witness ==
  /\ rtLog = LogRecord("Cleaned up old request contexts", None, 1)
  /\ rtStats.completedRequests + rtStats.failedRequests = 0
  /\ rtStats.totalRequests = 2
  /\ Cardinality(DOMAIN rtContexts) = 1

\* C20: on a stream that has not ended, updateStreamProgress with bytesReceived not below
\* the bytes transferred so far does not lower the percentage, and completeStream sets the
\* percentage to 100.
C20_PercentageMonotone ==
  [][/\ \A id \in DOMAIN ssStreams, b \in Sizes, c \in ChunkCounts :
          (/\ UpdateStreamProgress(id, b, c)
           /\ ssStreams[id].endTime = NoTime
           /\ b >= ssStreams[id].bytesTransferred)
          => RatLeq(ssStreams[id].percentage, ssStreams'[id].percentage)
     /\ \A id \in DOMAIN ssStreams, size \in {NoSize, 100} :
          CompleteStream(id, size) => ssStreams'[id].percentage = Rat(100, 1)]_vars

\* a stream of expected size 100 was updated to 50 bytes and then completed
C20_Witness ==
  /\ "s1" \in DOMAIN ssStreams
  /\ ssStreams["s1"].status = "completed"
  /\ ssStreams["s1"].expectedSize = 100
  /\ ssStreams["s1"].bytesTransferred = 50
  /\ ssStreams["s1"].chunksReceived = 2
  /\ ssStreams["s1"].percentage = Rat(100, 1)

\* C21: the percentage of every tracked stream is between 0 and 100.
C21_PercentageInRange ==
  \A id \in DOMAIN ssStreams :
    /\ ssStreams[id].percentage.num >= 0
    /\ RatLeq(ssStreams[id].percentage, Rat(100, 1))

\* C22 as stated: estimatedTimeRemaining is never negative, and it is undefined whenever
\* the expectedSize of the stream is unknown.
C22_EstimateUndefinedWithoutSize ==
  \A id \in DOMAIN ssStreams :
    /\ ssStreams[id].estimatedTimeRemaining.seconds.num >= 0
    /\ ssStreams[id].expectedSize = NoSize => ~ssStreams[id].estimatedTimeRemaining.defined

\* C22 amended: estimatedTimeRemaining is never negative, and it is undefined whenever the
\* expectedSize is unknown and the stream has not ended since it was started (completeStream
\* sets the estimate to 0 whether or not the size is known).
C22_EstimateUndefinedUntilEnded ==
  \A id \in DOMAIN ssStreams :
    /\ ssStreams[id].estimatedTimeRemaining.seconds.num >= 0
    /\ (ssStreams[id].expectedSize = NoSize /\ ssStreams[id].endTime = NoTime)
         => ~ssStreams[id].estimatedTimeRemaining.defined

\* a stream of unknown size has received 50 bytes half an hour or more after its start
C22_Witness ==
  /\ "s1" \in DOMAIN ssStreams
  /\ ssStreams["s1"].status = "progress"
  /\ ssStreams["s1"].expectedSize = NoSize
  /\ ssStreams["s1"].bytesTransferred = 50
  /\ ssStreams["s1"].lastUpdateTime > ssStreams["s1"].startTime
  /\ ~ssStreams["s1"].estimatedTimeRemaining.defined

\* C23: a stream whose status is Completed or Error keeps that status under every call
\* other than a new startStream.
C23_TerminalStreamStatus ==
  [][(~ \E id \in StreamIds, size \in {NoSize, 100} : StartStream(id, size))
       => \A id \in DOMAIN ssStreams \cap DOMAIN ssStreams' :
            ssStreams[id].status \in {"completed", "error"}
              => ssStreams'[id].status = ssStreams[id].status]_vars

\* C24: pauseStream moves a stream in progress to paused and changes nothing in any other
\* status; resumeStream moves a paused stream to progress and changes nothing in any other
\* status.
C24_PauseResumeOnlyEffective ==
  [][\A id \in StreamIds :
       /\ PauseStream(id) =>
            IF id \in DOMAIN ssStreams /\ ssStreams[id].status = "progress"
            THEN ssStreams'[id].status = "paused"
            ELSE ssStreams' = ssStreams
       /\ ResumeStream(id) =>
            IF id \in DOMAIN ssStreams /\ ssStreams[id].status = "paused"
            THEN ssStreams'[id].status = "progress"
            ELSE ssStreams' = ssStreams]_vars

\* one stream was paused, another was paused and resumed and then completed
C24_Witness ==
  /\ DOMAIN ssStreams = {"s1", "s2"}
  /\ ssStreams["s1"].status = "paused"
  /\ ssStreams["s1"].pauseTime # NoTime
  /\ ssStreams["s2"].status = "completed"
  /\ ssStreams["s2"].pauseTime = NoTime

\* C25: updateStreamProgress sets transferRate to the bytes received since the previous
\* update divided by the seconds elapsed since the previous update.
C25_InstantaneousRate ==
  [][\A id \in DOMAIN ssStreams, b \in Sizes :
       (UpdateStreamProgress(id, b, 1) /\ now > ssStreams[id].lastUpdateTime)
         => ssStreams'[id].transferRate
              = Rat((b - ssStreams[id].bytesTransferred) * 1000,
                    now - ssStreams[id].lastUpdateTime)]_vars

\* the total of errorCounts
RECURSIVE CountTotal(_, _)
CountTotal(counts, names) ==
  IF names = {} THEN 0
  ELSE LET n == CHOOSE x \in names : TRUE
       IN counts[n] + CountTotal(counts, names \ {n})

\* C26: after n errors were recorded the history holds the last min(n, 1000) of them in
\* arrival order, so it never exceeds the cap and the 1001st error evicts the first, while
\* the counts per error name still total n.
C26_HistoryCapped ==
  /\ Len(elHistory) = (IF elLogged < maxHistorySize THEN elLogged ELSE maxHistorySize)
  /\ \A i \in 1..Len(elHistory) :
       elHistory[i].errorMessage = elLogged - Len(elHistory) + i
  /\ CountTotal(elCounts, DOMAIN elCounts) = elLogged

\* 1001 errors were recorded: the first, a TypeError, has left the history and is still
\* counted
C26_Witness ==
  /\ elLogged = maxHistorySize + 1
  /\ Len(elHistory) = maxHistorySize
  /\ elHistory[1].errorMessage = 2
  /\ elHistory[maxHistorySize].errorMessage = maxHistorySize + 1
  /\ \A i \in 1..Len(elHistory) : elHistory[i].errorName = "Error"
  /\ "TypeError" \in DOMAIN elCounts
  /\ elCounts["TypeError"] = 1
  /\ elCounts["Error"] = maxHistorySize
\* a step of the updateConfig call of caller p
UpdateStep(p) ==
  \/ pc[p] = "idle" /\ loc'[p].op = "updateConfig"
  \/ loc[p].op = "updateConfig" /\ (pc'[p] # pc[p] \/ loc'[p] # loc[p])

\* what the trackers hold
TrackerState ==
  <<requestTracker, streamTracker, errorLogger, rtContexts, rtStats, ssStreams,
    elCounts, elHistory>>

\* C27: no step of an updateConfig call changes the request contexts, the request
\* statistics, the stream states or the error counts and history; its first step leaves
\* no stream registered, and when it returns the registered streams are streams of the
\* new configuration.
C27_UpdatePreservesTrackers ==
  [][\A p \in Callers :
       UpdateStep(p) =>
         /\ UNCHANGED TrackerState
         /\ pc[p] = "idle" => (streams' = <<>> /\ activeStreams' = {})
         /\ (pc'[p] = "idle" /\ res'.ok) =>
              MapKeys(streams') \subseteq { config'.streams[i].name :
                                              i \in 1..Len(config'.streams) }]_vars

\* an updateConfig has succeeded on a pipeline that follows a request, a stream and an
\* error
C27_Witness ==
  /\ res.op = "updateConfig"
  /\ res.ok
  /\ pc[Owner] = "idle"
  /\ streams # <<>>
  /\ "r1" \in DOMAIN rtContexts
  /\ rtStats.totalRequests = 1
  /\ "s1" \in DOMAIN ssStreams
  /\ Len(elHistory) = 1

\* the fields and the streams of a pipeline after cleanup
Clean ==
  /\ ~initialized
  /\ logger = NullLogger
  /\ requestTracker = NoObj
  /\ streamTracker = NoObj
  /\ errorLogger = NoObj
  /\ streams = <<>>
  /\ activeStreams = {}

C30_GetLoggerThrowsUninitialized ==
  [][(GetLogger /\ pc[Owner] = "idle" /\ ~initialized) => ~probe'.ok]_vars
\* C31: the destinations getMultiStreams hands to pino are exactly the destinations of
\* the streams registered as active.
C31_ActiveDestinations ==
  GetMultiStreams(streams, activeStreams) =
    { streams[i].stream : i \in { j \in 1..Len(streams) : streams[j].name \in activeStreams } }

\* the Writables the registry references
Registered(st) == { st[i].stream : i \in 1..Len(st) }

\* C32: a file Writable that is registered with autoEnd and that a step takes out of the
\* registry has been ended by the end of that step.
C32_NoOrphanDestination ==
  [][\A i \in 1..Len(streams) :
       (/\ streams[i].autoEnd
        /\ streams[i].stream # StdOut
        /\ streams[i].stream \notin Registered(streams'))
       => streams[i].stream \in ended']_vars

\* C33: statistics.activeRequests is never negative.
C33_ActiveRequestsNotNegative ==
  rtStats.activeRequests >= 0

\* the contexts held whose status is neither COMPLETED nor FAILED
ActiveContexts ==
  Cardinality({ id \in DOMAIN rtContexts : rtContexts[id].status \notin {COMPLETED, FAILED} })

\* C34: a trackRequestStart, trackRequestEnd or trackRequestError call made while
\* statistics.activeRequests equals the number of contexts that are neither COMPLETED nor
\* FAILED leaves the two equal.
C34_ActiveRequestsMatchContexts ==
  [][(rtStats.activeRequests = ActiveContexts /\ ~RTCleanup)
       => rtStats'.activeRequests = ActiveContexts']_vars

\* C35: once a request has ended or failed, averageResponseTime is the sum of the durations
\* of the requests counted in completedRequests and failedRequests divided by their number.
C35_AverageIncludesErrors ==
  rtStats.completedRequests + rtStats.failedRequests >= 1
    => rtStats.averageResponseTime =
         Rat(rtCalls.sum, rtStats.completedRequests + rtStats.failedRequests)

\* C36: the totalErrors of getErrorStatistics is the number of errors recorded since the
\* error logger was constructed or cleaned, which is the total of errorCounts.
C36_TotalErrorsIsCountTotal ==
  /\ TotalErrors(elHistory) = elLogged
  /\ TotalErrors(elHistory) = CountTotal(elCounts, DOMAIN elCounts)

\* C37: initialize builds a request tracker, whose initialize schedules the sweep interval,
\* only when the pipeline holds no tracker with a scheduled interval (the tracker replaced
\* would keep its interval, out of the reach of cleanup), and cleanup leaves no interval
\* scheduled.
C37_SingleSweepTimer ==
  [][\A p \in Callers :
       /\ (pc[p] = "streamsDone" /\ pc'[p] = "req") => ~(requestTracker # NoObj /\ rtInterval)
       /\ (pc[p] = "cleanup" /\ pc'[p] = "idle") => ~rtInterval']_vars

\* C40: a stream whose status is Paused keeps that status under every call other than
\* resumeStream, completeStream, handleStreamError and a new startStream; in particular
\* under updateStreamProgress.
C40_PausedStreamStatus ==
  [][\A id \in DOMAIN ssStreams \cap DOMAIN ssStreams' :
       (/\ ssStreams[id].status = "paused"
        /\ ~ResumeStream(id)
        /\ ~HandleStreamError(id)
        /\ ~ \E size \in {NoSize, 100} : CompleteStream(id, size) \/ StartStream(id, size))
       => ssStreams'[id].status = "paused"]_vars

\* C39: updateStream for a name that is registered and active, with a partial that keeps
\* the name and whose updated descriptor constructs, returns Ok and leaves exactly one
\* registered, active stream of that name, at the updated level; also when the stream was
\* added by addStream and has no descriptor in the configuration.
C39_UpdateActiveStreamSucceeds ==
  [][\A n \in Names, p \in Partials, envOk \in BOOLEAN :
       (/\ UpdateStream(n, p, envOk)
        /\ MapHas(streams, n) /\ n \in activeStreams
        /\ p.name = Undefined
        /\ HasConfig(smConfig, n) =>
             CreateStream(Spread(smConfig[ConfigIndex(smConfig, n)], p), envOk, 0).ok)
       => /\ smLast'.result.ok
          /\ Cardinality({ i \in 1..Len(streams') : streams'[i].name = n }) = 1
          /\ n \in activeStreams'
          /\ p.level # Undefined => MapGet(streams', n).level = p.level]_vars

\* C38: every integration whose initialize has returned Ok is the global integration or
\* has had cleanup called on it.
C38_NoOrphanIntegration ==
  \A i \in 1..Len(giInstances) :
    giInstances[i].completed => (i = globalIntegration \/ giInstances[i].cleanupCalled)
====
